---- MODULE Spec2Model ----
(***************************************************************************)
(* Model of the CDD simulation of mem-kit/camunda-mcp:                     *)
(*   - the Scenario Responder, src/mcp-cdd/state_street_cdd.py             *)
(*   - the Next-Step Follower, src/mcp-cdd/example_client.py               *)
(*                                                                         *)
(* Python values are tagged records: a str is [k |-> "str", v |-> <<..>>]  *)
(* (a sequence of one-character strings), None is [k |-> "none"], an int   *)
(* is [k |-> "int", v |-> n].  Fixed texts that the code only copies are   *)
(* TLA+ strings.  A dict is a record / function with string domain.        *)
(***************************************************************************)
EXTENDS Integers, Sequences, FiniteSets, TLC

VARIABLES
    cid,        \* customer_id of the latest tool call
    op,         \* name of the tool called latest ("none" before any call)
    out,        \* what that call returned or raised
    firstOut,   \* history: the outcome of the first call of each (tool, customer_id)
    repeated,   \* history: the latest call had been made before
    registry,   \* which functions tool_map binds: "real" or "stub"
    desc,       \* what kind of object the @mcp.tool() decorator left behind
    status,     \* "idle", "running", "returned" or "raised" (follow_next_steps)
    arg0,       \* the result passed to the top-level follow_next_steps, as passed
    arg,        \* the same object as the caller sees it after the call
    maxDepth,   \* max_depth of the running chain
    stack,      \* activation records of follow_next_steps, outermost first
    call,       \* the _call_tool invocation being awaited
    reports     \* everything printed by the running chain, in order

vars ==
    <<cid, op, out, firstOut, repeated, registry, desc, status, arg0, arg,
      maxDepth, stack, call, reports>>

followerVars ==
    <<registry, desc, status, arg0, arg, maxDepth, stack, call, reports>>

(***************************************************************************)
(* Bounds                                                                  *)
(***************************************************************************)
MaxIdLen == 6

\* Longest next_steps list of a result handed to follow_next_steps.
MaxSteps == 2

\* Largest max_depth handed to follow_next_steps.
MaxDepthArg == 4

(***************************************************************************)
(* Python values                                                           *)
(***************************************************************************)
Str(s) == [k |-> "str", v |-> s]

None == [k |-> "none"]

PyInt(n) == [k |-> "int", v |-> n]

\* Characters customer identifiers are drawn from: the letters of "neg" and
\* "pos" and one upper-case letter, so that both substrings, their overlap
\* with case and their absence all occur within MaxIdLen.
Alphabet == {"n", "e", "g", "N", "p", "o", "s"}

\* str.lower() on one character.
LowerChar(c) == IF c = "N" THEN "n" ELSE c

\* str.lower()
Lower(s) == [i \in 1..Len(s) |-> LowerChar(s[i])]

\* sub in s
Contains(s, sub) ==
    \E i \in 1..(Len(s) - Len(sub) + 1) : SubSeq(s, i, i + Len(sub) - 1) = sub

\* Python truthiness of a value: "not customer_id" is ~Truthy(customer_id)
Truthy(x) ==
    CASE x.k = "none" -> FALSE
      [] x.k = "str" -> Len(x.v) > 0
      [] x.k = "int" -> x.v # 0

\* The text an f-string {customer_id} produces.
Format(x) ==
    CASE x.k = "none" -> <<"N", "o", "n", "e">>
      [] x.k = "str" -> x.v
      [] x.k = "int" -> <<"7">>

\* Outcome of a call: a returned value or a raised exception.
Ok(v) == [ok |-> TRUE, val |-> v]

Raise(e) == [ok |-> FALSE, err |-> e]

\* An exception: its class and its message.
Err(type, msg) == [type |-> type, msg |-> msg]

\* 'str'.lower() on an object that has no such attribute (line 21).
AttributeError == Err("AttributeError", "object has no attribute 'lower'")

(***************************************************************************)
(* Scenario Responder                                                      *)
(***************************************************************************)
\* Mutant of _infer_scenario_for_customer: the 'pos' test comes first.
InferScenarioPosFirst(customer_id) ==
    IF ~Truthy(customer_id) THEN "positive"
    ELSE LET s == Lower(customer_id.v)
         IN  IF Contains(s, <<"p", "o", "s">>) THEN "positive"
             ELSE IF Contains(s, <<"n", "e", "g">>) THEN "negative"
             ELSE "positive"

\* _infer_scenario_for_customer, for a value that has .lower() (None, str).
InferScenario(customer_id) ==
    IF ~Truthy(customer_id) THEN "positive"
    ELSE LET s == Lower(customer_id.v)
         IN  IF Contains(s, <<"n", "e", "g">>)
                \/ Contains(s, <<"n", "e", "g", "a", "t", "i", "v", "e">>)
             THEN "negative"
             ELSE IF Contains(s, <<"p", "o", "s">>)
                     \/ Contains(s, <<"p", "o", "s", "i", "t", "i", "v", "e">>)
             THEN "positive"
             ELSE "positive"

\* A truthy value without .lower() makes line 21 raise AttributeError.
LowerRaises(customer_id) == Truthy(customer_id) /\ customer_id.k # "str"

\* Mutant of ToolStep: the entry carries an empty params dict.
ToolStepNoId(t, c) ==
    [kind |-> "tool", tool |-> t,
     params |-> [k |-> "dict", v |-> [x \in {} |-> None]]]

\* A structured next step {"tool": t, "params": {"customer_id": c}}
ToolStep(t, c) ==
    [kind |-> "tool", tool |-> t,
     params |-> [k |-> "dict", v |-> [customer_id |-> c]]]

\* A plain-string next step
Human(text) == [kind |-> "human", text |-> text]

get_customer_profile(customer_id) ==
    LET scenario == InferScenario(customer_id)
        base == [customer_id |-> customer_id,
                 name |-> "ACME Corp",
                 country |-> "US",
                 incorporation_date |-> "2010-07-16",
                 industry |-> "Financial Services",
                 contacts |-> <<[name |-> "Jane Doe",
                                 role |-> "Compliance Officer",
                                 email |-> "jane.doe@example.com"]>>]
        upd == IF scenario = "negative"
               THEN [status |-> "under_review",
                     risk_profile |-> "high",
                     notes |-> "Potential sanctions exposure and anomalous transactions detected"]
               ELSE [status |-> "active",
                     risk_profile |-> "low",
                     notes |-> "Customer in good standing"]
        steps == IF scenario = "negative"
                 THEN <<Human("Collect additional KYC"),
                        Human("Enhanced monitoring"),
                        Human("Escalate to AML officer"),
                        ToolStep("get_risk_score", customer_id),
                        ToolStep("generate_compliance_report", customer_id)>>
                 ELSE <<Human("Standard monitoring"),
                        Human("Periodic review in 12 months"),
                        ToolStep("get_risk_score", customer_id),
                        ToolStep("generate_compliance_report", customer_id)>>
    IN  IF LowerRaises(customer_id) THEN Raise(AttributeError)
        ELSE Ok(("next_steps" :> steps) @@ upd @@ base)

\* baseline["factors"]
Factors ==
    [sanctions |-> 5, geo_risk |-> 12, industry_risk |-> 20,
     transaction_pattern |-> 35]

RECURSIVE SumOver(_, _)
SumOver(f, keys) ==
    IF keys = {} THEN 0
    ELSE LET x == CHOOSE y \in keys : TRUE
         IN  f[x] + SumOver(f, keys \ {x})

\* sum(baseline["factors"].values())
SumValues(f) == SumOver(f, DOMAIN f)

\* Mutant of IntOfProduct: round to nearest instead of truncating.
RoundOfProduct(n, num, den) == (2 * n * num + den) \div (2 * den)

\* int(n * m) for the float m = num/den and n >= 0: the product is truncated
\* toward zero.  (72 * 0.3 is 21.599999999999998 in binary floating point and
\* 72 * 2.0 is exactly 144.0; neither is within rounding error of an integer
\* boundary, so truncating the exact rational gives the same integer.)
IntOfProduct(n, num, den) == (n * num) \div den

Min(a, b) == IF a < b THEN a ELSE b

Max(a, b) == IF a > b THEN a ELSE b

\* Mutant of NegativeScore: the cap min(100, score) is missing.
NegativeScoreUncapped == IntOfProduct(SumValues(Factors), 20, 10)

\* lines 97-99: min(100, int(sum * 2.0))
NegativeScore == Min(100, IntOfProduct(SumValues(Factors), 20, 10))

\* line 111: max(0, int(sum * 0.3))
PositiveScore == Max(0, IntOfProduct(SumValues(Factors), 3, 10))

get_risk_score(customer_id) ==
    LET scenario == InferScenario(customer_id)
        baseline == [customer_id |-> customer_id,
                     scale |-> "0-100",
                     factors |-> Factors]
        score == PositiveScore
        upd == IF scenario = "negative"
               THEN [score |-> NegativeScore,
                     interpretation |-> "High risk",
                     recommendation |-> <<"Immediate enhanced due diligence",
                                          "Transaction restrictions until cleared">>,
                     next_steps |-> <<Human("Freeze suspicious accounts"),
                                      Human("Collect source-of-funds evidence"),
                                      Human("Notify AML team"),
                                      ToolStep("explain_risk", customer_id),
                                      ToolStep("generate_compliance_report", customer_id)>>]
               ELSE [score |-> score,
                     interpretation |-> IF score < 30 THEN "Low risk"
                                        ELSE "Moderate risk",
                     recommendation |-> IF score < 30
                                        THEN <<"Standard monitoring">>
                                        ELSE <<"Enhanced monitoring">>,
                     next_steps |-> <<Human(IF score < 30 THEN "Routine checks"
                                            ELSE "Request a brief KYC update"),
                                      ToolStep("explain_risk", customer_id),
                                      ToolStep("generate_compliance_report", customer_id)>>]
    IN  IF LowerRaises(customer_id) THEN Raise(AttributeError)
        ELSE Ok(upd @@ baseline)

explain_risk(customer_id) ==
    LET scenario == InferScenario(customer_id)
    IN  IF LowerRaises(customer_id) THEN Raise(AttributeError)
        ELSE IF scenario = "negative"
        THEN Ok([customer_id |-> customer_id,
                 explanation |-> "High risk indicators: suspicious transaction patterns, exposure to higher-risk geographies, and possible name matches in screening results.",
                 recommendation |-> <<"Immediate enhanced due diligence",
                                      "Temporary transaction restrictions",
                                      "Collect and verify source-of-funds and beneficial ownership documentation">>,
                 next_steps |-> <<Human("Escalate to AML officer"),
                                  Human("Open investigation ticket"),
                                  Human("Contact counterparty banks if required"),
                                  ToolStep("generate_compliance_report", customer_id)>>])
        ELSE Ok([customer_id |-> customer_id,
                 explanation |-> "Low risk profile: strong KYC, low geolocation exposure, and normal transaction patterns.",
                 recommendation |-> <<"Standard monitoring", "Annual re-check">>,
                 next_steps |-> <<Human("Continue normal monitoring"),
                                  Human("Re-run scoring yearly"),
                                  ToolStep("generate_compliance_report", customer_id)>>])

\* Mutant of ReportId: the report number counts up with the tool calls made.
ReportIdNumbered(customer_id) ==
    <<"R", "P", "T", "-">> \o Format(customer_id)
        \o <<"-", "0", "0", IF firstOut = {} THEN "1" ELSE "2">>

\* Mutant of ReportId: the customer identifier is left out of the report id.
ReportIdNoCustomer(customer_id) ==
    <<"R", "P", "T", "-">> \o <<"-", "0", "0", "1">>

\* line 173: f"RPT-{customer_id}-001"
ReportId(customer_id) ==
    <<"R", "P", "T", "-">> \o Format(customer_id) \o <<"-", "0", "0", "1">>

generate_compliance_report(customer_id) ==
    LET scenario == InferScenario(customer_id)
        report == [customer_id |-> customer_id,
                   report_id |-> ReportId(customer_id),
                   generated_at |-> "2025-11-29T12:00:00Z"]
        upd == IF scenario = "negative"
               THEN [summary |-> [kyc_verified |-> FALSE,
                                  aml_checks_passed |-> FALSE,
                                  open_issues |-> <<[id |-> "ISS-01",
                                                     description |-> "Multiple high-value transfers to flagged jurisdictions"],
                                                    [id |-> "ISS-02",
                                                     description |-> "Possible mismatch in beneficial owner documentation"]>>],
                     next_steps |-> <<Human("Freeze account pending investigation"),
                                      Human("Collect source-of-funds evidence"),
                                      Human("Escalate to AML officer and file internal incident")>>]
               ELSE [summary |-> [kyc_verified |-> TRUE,
                                  aml_checks_passed |-> TRUE,
                                  open_issues |-> <<>>],
                     next_steps |-> <<Human("Archive check results"),
                                      Human("Re-evaluate in 12 months")>>]
    IN  IF LowerRaises(customer_id) THEN Raise(AttributeError)
        ELSE Ok(upd @@ report)

\* The four tools of the CDD service, by name.
ToolNames ==
    {"get_customer_profile", "get_risk_score", "explain_risk",
     "generate_compliance_report"}

\* The body of the tool named t run on customer_id.
ToolBody(t, customer_id) ==
    CASE t = "get_customer_profile" -> get_customer_profile(customer_id)
      [] t = "get_risk_score" -> get_risk_score(customer_id)
      [] t = "explain_risk" -> explain_risk(customer_id)
      [] t = "generate_compliance_report" -> generate_compliance_report(customer_id)

(***************************************************************************)
(* A substitute registry for the tools (test double): same names, but       *)
(* get_customer_profile answers [human, toolA, human2, toolB],              *)
(* explain_risk fails while it runs, and generate_compliance_report points  *)
(* back to get_customer_profile, which makes the response graph cyclic.     *)
(***************************************************************************)
StubBody(t, customer_id) ==
    CASE t = "get_customer_profile" ->
           Ok([customer_id |-> customer_id,
               next_steps |-> <<Human("human"),
                                ToolStep("get_risk_score", customer_id),
                                Human("human2"),
                                ToolStep("generate_compliance_report", customer_id)>>])
      [] t = "get_risk_score" ->
           Ok([customer_id |-> customer_id,
               next_steps |-> <<ToolStep("explain_risk", customer_id),
                                Human("after explain_risk")>>])
      [] t = "explain_risk" ->
           Raise(Err("TypeError", "stub failure"))
      [] t = "generate_compliance_report" ->
           Ok([customer_id |-> customer_id,
               next_steps |-> <<ToolStep("get_customer_profile", customer_id)>>])

(***************************************************************************)
(* _call_tool                                                              *)
(***************************************************************************)
\* A dict value and the empty dict.
Dict(m) == [k |-> "dict", v |-> m]

EmptyMap == [x \in {} |-> None]

\* What @mcp.tool() left in the module under the tool's name: whether the
\* object is callable, whether one of __wrapped__/func/fn/function holds a
\* callable, whether one of call/invoke/run is a callable attribute.
D_function == [callable |-> TRUE, attr |-> FALSE, method |-> FALSE]

D_wrapped == [callable |-> TRUE, attr |-> TRUE, method |-> FALSE]

D_functiontool == [callable |-> FALSE, attr |-> TRUE, method |-> TRUE]

D_runner == [callable |-> FALSE, attr |-> FALSE, method |-> TRUE]

\* One call f(**kwargs) of the function behind tool t: the arguments are
\* bound to the signature (customer_id: str), then the body runs.
InvokeFunction(reg, t, kwargs) ==
    IF DOMAIN kwargs # {"customer_id"}
    THEN [res |-> Raise(Err("TypeError", "missing or unexpected keyword argument")),
          ran |-> FALSE]
    ELSE [res |-> IF reg = "real" THEN ToolBody(t, kwargs.customer_id)
                  ELSE StubBody(t, kwargs.customer_id),
          ran |-> TRUE]

NotCallableError ==
    Err("TypeError", "Tool object is not callable and no underlying function was found")

\* _call_tool(tool, **kwargs), where f is what one call of the underlying
\* function does (InvokeFunction).  calls counts the calls made of the
\* function, runs the times its body ran.
CallTool(d, f) ==
    LET one == IF f.ran THEN 1 ELSE 0
        \* strategy 1 (lines 29-37): except TypeError falls through
        tried == d.callable
        caught == d.callable /\ ~f.res.ok /\ f.res.err.type = "TypeError"
        c1 == IF tried THEN 1 ELSE 0
        r1 == IF tried THEN one ELSE 0
    IN  IF tried /\ ~caught
        THEN [res |-> f.res, calls |-> 1, runs |-> one]
        ELSE IF d.attr      \* strategy 2 (lines 40-47)
        THEN [res |-> f.res, calls |-> c1 + 1, runs |-> r1 + one]
        ELSE IF d.method    \* strategy 3 (lines 50-55)
        THEN [res |-> f.res, calls |-> c1 + 1, runs |-> r1 + one]
        ELSE [res |-> Raise(NotCallableError), calls |-> c1, runs |-> r1]

(***************************************************************************)
(* follow_next_steps                                                       *)
(***************************************************************************)
\* steps = result.get("next_steps") or []
Steps(result) ==
    IF "next_steps" \in DOMAIN result THEN result.next_steps ELSE <<>>

\* isinstance(step, dict) and step.get("tool")
IsToolStep(step) == step.kind = "tool" /\ step.tool # ""

\* params = step.get("params", {}): the dict of the entry itself, or a new
\* empty dict when the entry has no "params" key.
StepParams(step) ==
    IF step.params.k = "absent" THEN Dict(EmptyMap) ELSE step.params

\* Mutant of NeedsInject: the parent's customer_id always overrides.
NeedsInjectAlways(params, result) == "customer_id" \in DOMAIN result

\* line 106: "customer_id" not in params and "customer_id" in result
NeedsInject(params, result) ==
    /\ "customer_id" \notin DOMAIN params.v
    /\ "customer_id" \in DOMAIN result

\* lines 106-107: the params dict after the injection
Injected(params, result) ==
    IF NeedsInject(params, result)
    THEN Dict(("customer_id" :> result.customer_id) @@ params.v)
    ELSE params

\* The result object after lines 104-107 ran on its entry i: the entry's own
\* params dict is the one written to; a dict made by the default is not part
\* of the result.
AfterInject(result, i) ==
    LET step == result.next_steps[i]
    IN  IF step.params.k = "dict"
        THEN [result EXCEPT !.next_steps[i].params = Injected(step.params, result)]
        ELSE result

\* Mutant of Resolves: every name resolves (tool_map[tool_name] on a
\* registry that answers every key).
ResolvesAny(tool_name) == TRUE

\* line 109-110: func = tool_map.get(tool_name); the four bound names.
Resolves(tool_name) == tool_name \in ToolNames

\* Mutant of DepthGuard: the top-level call is never stopped.
DepthGuardBelowTop(depth, max_depth) == depth > 0 /\ depth >= max_depth

\* Mutant of DepthGuard: off by one.
DepthGuardLate(depth, max_depth) == depth > max_depth

\* line 86
DepthGuard(depth, max_depth) == depth >= max_depth

\* Mutant of NextIndex: the loop stops after the entry (break for continue).
NextIndexBreak(i, n) == n + 1

\* The for loop's advance to the following entry.
NextIndex(i, n) == i + 1

\* Mutant of LoopEntry: the list is walked from its end.
LoopEntryReversed(i, n) == n + 1 - i

\* for step in steps: the i-th pass of the loop takes the i-th of n entries.
LoopEntry(i, n) == i

\* Mutant of Catches: only TypeError is caught.
CatchesTypeErrorOnly(e) == e.type = "TypeError"

\* line 120: except Exception
Catches(e) == e.type \in {"TypeError", "AttributeError", "Exception"}

Top(stk) == stk[Len(stk)]

SetTop(stk, f) == [stk EXCEPT ![Len(stk)] = f]

Frame(result, depth, path) ==
    [result |-> result, depth |-> depth, idx |-> 1, pc |-> "enter", path |-> path]

\* One printed line.  path is the position of the entry the line is about:
\* its index in next_steps, preceded by the path of the entry whose result
\* holds it; n is the length of that next_steps.
Report(kind, path, n, depth, tool, info) ==
    [kind |-> kind, path |-> path, n |-> n, depth |-> depth, tool |-> tool,
     info |-> info]

NoCall == [tool |-> "", params |-> Dict(EmptyMap)]

NoResult == [note |-> "none"]

\* The stack after the innermost call returned: the caller's await at line
\* 119 ends and its loop goes on with the following entry.
AfterReturn(stk) ==
    LET rest == SubSeq(stk, 1, Len(stk) - 1)
    IN  IF rest = <<>> THEN rest
        ELSE SetTop(rest, [Top(rest) EXCEPT
                             !.idx = NextIndex(@, Len(Steps(Top(rest).result))),
                             !.pc = "loop"])

\* The innermost call returns.
ReturnTop ==
    /\ stack' = AfterReturn(stack)
    /\ status' = IF Len(stack) = 1 THEN "returned" ELSE status
    /\ arg' = IF Len(stack) = 1 THEN Top(stack).result ELSE arg

\* An exception e leaves the innermost call: the caller's except clause at
\* line 120 gets it, or the top-level call raises.
RaiseTop(e) ==
    LET rest == SubSeq(stack, 1, Len(stack) - 1)
    IN  IF rest = <<>> \/ ~Catches(e)
        THEN /\ stack' = <<>>
             /\ status' = "raised"
             /\ arg' = stack[1].result
             /\ UNCHANGED reports
        ELSE LET parent == Top(rest)
                 n == Len(Steps(parent.result))
                 step == Steps(parent.result)[LoopEntry(parent.idx, n)]
             IN  /\ stack' = SetTop(rest, [parent EXCEPT !.idx = NextIndex(@, n),
                                                         !.pc = "loop"])
                 /\ reports' = Append(reports,
                        Report("error", Append(parent.path, LoopEntry(parent.idx, n)), n,
                               parent.depth, step.tool,
                               [detail |-> e, calls |-> 0, runs |-> 0]))
                 /\ UNCHANGED <<status, arg>>

\* follow_next_steps(result, max_depth) is called.
FollowStart(result, max_depth) ==
    /\ status # "running"
    /\ status' = "running"
    /\ arg0' = result
    /\ arg' = result
    /\ maxDepth' = max_depth
    /\ stack' = <<Frame(result, 0, <<>>)>>
    /\ reports' = <<>>
    /\ UNCHANGED <<cid, op, out, firstOut, repeated, registry, desc, call>>

\* lines 86-92: the depth guard and the empty-steps return.
Enter ==
    /\ status = "running"
    /\ Top(stack).pc = "enter"
    /\ LET top == Top(stack)
       IN  IF DepthGuard(top.depth, maxDepth)
           THEN /\ reports' = Append(reports,
                       Report("truncated", top.path, 0, top.depth, "",
                              [note |-> "Max next-step depth reached"]))
                /\ ReturnTop
           ELSE IF Steps(top.result) = <<>>
           THEN /\ ReturnTop
                /\ UNCHANGED reports
           ELSE /\ stack' = SetTop(stack, [top EXCEPT !.pc = "loop"])
                /\ UNCHANGED <<status, arg, reports>>
    /\ UNCHANGED <<cid, op, out, firstOut, repeated, registry, desc, arg0, maxDepth, call>>

\* lines 101-114 and 123-125: one pass of the loop body, up to the await of
\* _call_tool or to the end of the pass.
Iterate ==
    /\ status = "running"
    /\ Top(stack).pc = "loop"
    /\ Top(stack).idx <= Len(Steps(Top(stack).result))
    /\ LET top == Top(stack)
           n == Len(Steps(top.result))
           i == LoopEntry(top.idx, n)
           step == Steps(top.result)[i]
           path == Append(top.path, i)
       IN  IF ~IsToolStep(step)
           THEN /\ reports' = Append(reports,
                       Report("human", path, n, top.depth, "", [step |-> step]))
                /\ stack' = SetTop(stack, [top EXCEPT !.idx = NextIndex(top.idx, n)])
                /\ UNCHANGED <<status, arg, call>>
           ELSE IF StepParams(step).k # "dict"
           THEN \* "customer_id" not in None raises TypeError outside the try
                /\ RaiseTop(Err("TypeError", "argument of type 'NoneType' is not iterable"))
                /\ UNCHANGED call
           ELSE LET params == Injected(StepParams(step), top.result)
                    result == AfterInject(top.result, i)
                IN  IF ~Resolves(step.tool)
                    THEN /\ reports' = Append(reports,
                                Report("unknown", path, n, top.depth, step.tool,
                                       [note |-> "Unknown tool referenced in next_steps"]))
                         /\ stack' = SetTop(stack, [top EXCEPT
                                                      !.result = result,
                                                      !.idx = NextIndex(top.idx, n)])
                         /\ UNCHANGED <<status, arg, call>>
                    ELSE /\ reports' = Append(reports,
                                Report("call", path, n, top.depth + 1, step.tool,
                                       [params |-> params]))
                         /\ stack' = SetTop(stack, [top EXCEPT !.result = result,
                                                                !.pc = "call"])
                         /\ call' = [tool |-> step.tool, params |-> params]
                         /\ UNCHANGED <<status, arg>>
    /\ UNCHANGED <<cid, op, out, firstOut, repeated, registry, desc, arg0, maxDepth>>

\* The for loop has no entry left: follow_next_steps returns.
LoopExit ==
    /\ status = "running"
    /\ Top(stack).pc = "loop"
    /\ Top(stack).idx > Len(Steps(Top(stack).result))
    /\ ReturnTop
    /\ UNCHANGED <<cid, op, out, firstOut, repeated, registry, desc, arg0, maxDepth, call, reports>>

\* Tool t has run on customer_id c before.
Called(hist, t, c) == \E h \in hist : h.op = t /\ h.cid = c

\* The outcome of a tool call enters the history of first outcomes.
Recorded(hist, t, c, o) ==
    IF Called(hist, t, c) THEN hist
    ELSE hist \cup {[op |-> t, cid |-> c, out |-> o]}

\* The customer_id a call was made with, None if it had none.
CallCid(kwargs) ==
    IF "customer_id" \in DOMAIN kwargs THEN kwargs.customer_id ELSE None

\* lines 116-121: the awaited _call_tool ends; its result is printed and
\* followed, or its exception is caught and printed.
Complete ==
    /\ status = "running"
    /\ Top(stack).pc = "call"
    /\ LET top == Top(stack)
           n == Len(Steps(top.result))
           i == LoopEntry(top.idx, n)
           path == Append(top.path, i)
           f == InvokeFunction(registry, call.tool, call.params.v)
           r == CallTool(desc, f)
       IN  /\ IF r.res.ok
              THEN /\ reports' = Append(reports,
                          Report("result", path, n, top.depth + 1, call.tool,
                                 [resp |-> r.res.val, calls |-> r.calls, runs |-> r.runs]))
                   /\ stack' = Append(SetTop(stack, [top EXCEPT !.pc = "descend"]),
                                      Frame(r.res.val, top.depth + 1, path))
                   /\ UNCHANGED <<status, arg>>
              ELSE IF Catches(r.res.err)
              THEN /\ reports' = Append(reports,
                          Report("error", path, n, top.depth, call.tool,
                                 [detail |-> r.res.err, calls |-> r.calls, runs |-> r.runs]))
                   /\ stack' = SetTop(stack, [top EXCEPT !.idx = NextIndex(top.idx, n),
                                                          !.pc = "loop"])
                   /\ UNCHANGED <<status, arg>>
              ELSE /\ stack' = <<>>
                   /\ status' = "raised"
                   /\ arg' = stack[1].result
                   /\ UNCHANGED reports
           /\ IF r.runs > 0
              THEN /\ op' = call.tool
                   /\ cid' = call.params.v.customer_id
                   /\ out' = f.res
                   /\ firstOut' = Recorded(firstOut, call.tool,
                                           call.params.v.customer_id, f.res)
                   /\ repeated' = Called(firstOut, call.tool,
                                         call.params.v.customer_id)
              ELSE UNCHANGED <<op, cid, out, firstOut, repeated>>
    /\ call' = NoCall
    /\ UNCHANGED <<registry, desc, arg0, maxDepth>>

(***************************************************************************)
(* Specification of the responder alone: one tool is applied to one        *)
(* customer identifier drawn from all short strings and None.              *)
(***************************************************************************)
NoOut == Raise(Err("none", "not called"))

Strings == UNION {[1..n -> Alphabet] : n \in 0..MaxIdLen}

Ids == {Str(s) : s \in Strings} \cup {None}

\* The follower is not running.
FollowerIdle ==
    /\ status = "idle"
    /\ arg0 = NoResult
    /\ arg = NoResult
    /\ maxDepth = 0
    /\ stack = <<>>
    /\ call = NoCall
    /\ reports = <<>>

InitResponder ==
    /\ cid \in Ids
    /\ op = "none"
    /\ out = NoOut
    /\ firstOut = {}
    /\ repeated = FALSE
    /\ registry = "real"
    /\ desc = D_functiontool
    /\ FollowerIdle

\* One direct call of a tool, as run_demo makes through _call_tool.
Respond(t) ==
    /\ op = "none"
    /\ op' = t
    /\ out' = ToolBody(t, cid)
    /\ UNCHANGED <<cid, firstOut, repeated>>
    /\ UNCHANGED followerVars

\* A direct call of _infer_scenario_for_customer.
Infer ==
    /\ op = "none"
    /\ op' = "_infer_scenario_for_customer"
    /\ out' = IF LowerRaises(cid) THEN Raise(AttributeError)
              ELSE Ok([scenario |-> InferScenario(cid)])
    /\ UNCHANGED <<cid, firstOut, repeated>>
    /\ UNCHANGED followerVars

NextResponder ==
    \/ Infer
    \/ \E t \in ToolNames : Respond(t)

SpecResponder == InitResponder /\ [][NextResponder]_vars

(***************************************************************************)
(* Specification of one chain: follow_next_steps is called once, on a      *)
(* result that is an answer of get_customer_profile (as run_demo and       *)
(* run_scenarios do) or any short document of the same shape.              *)
(***************************************************************************)
NegId == Str(<<"N", "e", "g">>)

PosId == Str(<<"p", "o", "s">>)

Absent == [k |-> "absent"]

Entry(tool, params) == [kind |-> "tool", tool |-> tool, params |-> params]

\* Entries of a hand-made next_steps list.
TopEntries ==
    {Human("human"),
     Entry("explain_risk", Dict([customer_id |-> NegId])),
     Entry("get_customer_profile", Dict(EmptyMap)),
     Entry("generate_compliance_report", Absent),
     Entry("no_such_tool", Dict(EmptyMap)),
     Entry("", Dict(EmptyMap)),
     Entry("explain_risk", Dict([customer_id |-> PyInt(7)])),
     Entry("generate_compliance_report", Dict([customer_id |-> PosId, verbose |-> TRUE])),
     Entry("explain_risk", None)}

TopSteps == UNION {[1..n -> TopEntries] : n \in 0..MaxSteps}

\* Hand-made results: with or without customer_id, with or without next_steps.
TopResults ==
    LET base == {[note |-> "input"], [note |-> "input", customer_id |-> NegId]}
    IN  base \cup {("next_steps" :> st) @@ b : st \in TopSteps, b \in base}

\* What run_demo and run_scenarios pass: the profile of a customer.
ProfileResults == {get_customer_profile(c).val : c \in {NegId, PosId}}

Inputs == TopResults \cup ProfileResults

\* The registry and the kind of its tool objects.
Setups ==
    ({"real"} \X {D_function, D_wrapped, D_functiontool, D_runner})
        \cup ({"stub"} \X {D_wrapped})

Init ==
    /\ cid = None
    /\ op = "none"
    /\ out = NoOut
    /\ firstOut = {}
    /\ repeated = FALSE
    /\ \E su \in Setups : registry = su[1] /\ desc = su[2]
    /\ FollowerIdle

Next ==
    \/ status = "idle" /\ \E r \in Inputs, d \in 0..MaxDepthArg : FollowStart(r, d)
    \/ Enter
    \/ Iterate
    \/ LoopExit
    \/ Complete

Spec == Init /\ [][Next]_vars

\* The chain is one task that runs whenever it can (asyncio.run drives it).
FairSpec == Spec /\ WF_vars(Next)

(***************************************************************************)
(* Specification of a client session: direct tool calls and chains in any  *)
(* order, as run_demo and run_scenarios mix them.                          *)
(***************************************************************************)
\* Mutant of DefaultMaxDepth: the default is one level short.
DefaultMaxDepthShort == 4 - 1

\* line 77: max_depth: int = 4
DefaultMaxDepth == 4

SessionIds == {NegId, PosId}

\* The profile of a customer, and a document that needs the injection.
SessionInputs ==
    ProfileResults \cup
        {[note |-> "input", customer_id |-> NegId,
          next_steps |-> <<Entry("get_risk_score", Dict(EmptyMap))>>]}

\* await _call_tool(tool, customer_id), lines 63-66 and 134-152
ClientCall(t, c) ==
    /\ status # "running"
    /\ LET r == CallTool(desc, [res |-> ToolBody(t, c), ran |-> TRUE])
       IN  /\ op' = t
           /\ cid' = c
           /\ out' = r.res
           /\ firstOut' = Recorded(firstOut, t, c, r.res)
           /\ repeated' = Called(firstOut, t, c)
    /\ UNCHANGED followerVars

InitSession ==
    /\ cid = None
    /\ op = "none"
    /\ out = NoOut
    /\ firstOut = {}
    /\ repeated = FALSE
    /\ registry = "real"
    /\ desc = D_functiontool
    /\ FollowerIdle

NextSession ==
    \/ \E t \in ToolNames, c \in SessionIds : ClientCall(t, c)
    \/ status # "running" /\ \E r \in SessionInputs : FollowStart(r, DefaultMaxDepth)
    \/ Enter
    \/ Iterate
    \/ LoopExit
    \/ Complete

SpecSession == InitSession /\ [][NextSession]_vars

(***************************************************************************)
(* Claims about the responder (checked under SpecResponder)                *)
(***************************************************************************)
\* The identifier is a string with "neg" in it, in any mix of cases; stated
\* on the characters, without str.lower().
HasNeg(c) ==
    /\ c.k = "str"
    /\ \E i \in 1..(Len(c.v) - 2) :
          /\ c.v[i] \in {"n", "N"}
          /\ c.v[i + 1] \in {"e", "E"}
          /\ c.v[i + 2] \in {"g", "G"}

HasPos(c) ==
    /\ c.k = "str"
    /\ \E i \in 1..(Len(c.v) - 2) :
          /\ c.v[i] \in {"p", "P"}
          /\ c.v[i + 1] \in {"o", "O"}
          /\ c.v[i + 2] \in {"s", "S"}

\* C1: classification is total and deterministic: every identifier, the
\* empty string and None included, gets exactly one of 'positive' and
\* 'negative', and it is 'negative' exactly when the identifier contains
\* "neg" in any case (also when it contains "pos" too).
C1_ClassificationTotal ==
    op = "_infer_scenario_for_customer" =>
        /\ out.ok
        /\ out.val.scenario \in {"positive", "negative"}
        /\ (out.val.scenario = "negative") <=> HasNeg(cid)

C1_Witness ==
    /\ op = "_infer_scenario_for_customer"
    /\ HasNeg(cid) /\ HasPos(cid)
    /\ cid.v[1] = "p"
    /\ out.ok /\ out.val.scenario = "negative"

\* C2 as stated: a positive-scenario identifier gets score 22.
C2_ScoreIs22 ==
    (op = "get_risk_score" /\ ~HasNeg(cid)) => (out.ok /\ out.val.score = 22)

\* C2 as amended: a positive-scenario identifier gets score 21, the factor
\* sum 72 times 0.3 truncated toward zero.
C2_ScoreIs21 ==
    (op = "get_risk_score" /\ ~HasNeg(cid)) =>
        /\ out.ok
        /\ out.val.factors = [sanctions |-> 5, geo_risk |-> 12,
                              industry_risk |-> 20, transaction_pattern |-> 35]
        /\ out.val.score = 21

C2_Witness ==
    /\ op = "get_risk_score"
    /\ HasPos(cid) /\ ~HasNeg(cid)
    /\ out.ok /\ out.val.score = 21

\* C3: the score of get_risk_score is within 0..100; a negative-scenario
\* identifier gets 100, "High risk" and two recommendations; a
\* positive-scenario identifier gets a score below 30, "Low risk",
\* ["Standard monitoring"] and "Routine checks" as first next step.
C3_RiskScoreShape ==
    op = "get_risk_score" =>
        /\ out.ok
        /\ out.val.score \in 0..100
        /\ HasNeg(cid) =>
              /\ out.val.score = 100
              /\ out.val.interpretation = "High risk"
              /\ Len(out.val.recommendation) = 2
        /\ ~HasNeg(cid) =>
              /\ out.val.score < 30
              /\ out.val.interpretation = "Low risk"
              /\ out.val.recommendation = <<"Standard monitoring">>
              /\ out.val.next_steps[1] = [kind |-> "human", text |-> "Routine checks"]

C3_Witness ==
    /\ op = "get_risk_score"
    /\ HasNeg(cid)
    /\ out.ok /\ out.val.score = 100 /\ out.val.interpretation = "High risk"

\* C4: generate_compliance_report(c) has report_id "RPT-" + c + "-001" for
\* every string c, a fixed generated_at, and the summary of c's scenario:
\* not verified with two open issues when negative, verified with none when
\* positive.
C4_ComplianceReport ==
    op = "generate_compliance_report" =>
        /\ out.ok
        /\ cid.k = "str" =>
              out.val.report_id =
                  <<"R", "P", "T", "-">> \o cid.v \o <<"-", "0", "0", "1">>
        /\ out.val.generated_at = "2025-11-29T12:00:00Z"
        /\ HasNeg(cid) =>
              /\ out.val.summary.kyc_verified = FALSE
              /\ out.val.summary.aml_checks_passed = FALSE
              /\ Len(out.val.summary.open_issues) = 2
        /\ ~HasNeg(cid) =>
              /\ out.val.summary.kyc_verified = TRUE
              /\ out.val.summary.aml_checks_passed = TRUE
              /\ out.val.summary.open_issues = <<>>

C4_Witness ==
    /\ op = "generate_compliance_report"
    /\ HasNeg(cid) /\ Len(cid.v) > 3
    /\ out.ok
    /\ Len(out.val.report_id) = Len(cid.v) + 8
    /\ out.val.summary.kyc_verified = FALSE

Front(p) == SubSeq(p, 1, Len(p) - 1)

Last(p) == p[Len(p)]

IsPrefix(p, q) == Len(p) <= Len(q) /\ SubSeq(q, 1, Len(p)) = p

StrictPrefix(p, q) == Len(p) < Len(q) /\ IsPrefix(p, q)

\* p comes no later than q in a depth-first, left-to-right walk.
PathLE(p, q) ==
    \/ IsPrefix(p, q)
    \/ \E k \in 1..Min(Len(p), Len(q)) :
          /\ SubSeq(p, 1, k - 1) = SubSeq(q, 1, k - 1)
          /\ p[k] < q[k]

ReportsOf(kind) == {i \in DOMAIN reports : reports[i].kind = kind}

\* The printed result of the invocation of the entry at path p, as it was
\* when it was printed; the top-level result as it was passed for <<>>.
ResultAt(p) ==
    IF p = <<>> THEN arg0
    ELSE LET i == CHOOSE j \in ReportsOf("result") : reports[j].path = p
         IN  reports[i].info.resp

\* The entry a path names.
EntryAt(p) == Steps(ResultAt(Front(p)))[Last(p)]

\* Some line was printed about the entry at path p.
Reported(p) ==
    \E j \in DOMAIN reports : reports[j].path = p /\ reports[j].kind # "truncated"

Terminal == status \in {"returned", "raised"}

\* params is not a mapping: the data model does not allow it.
NonConforming(e) == IsToolStep(e) /\ StepParams(e).k # "dict"

Conforms(result) ==
    \A i \in DOMAIN Steps(result) : ~NonConforming(Steps(result)[i])

\* At the end of the chain every entry after position k of the list at
\* path p has been processed, up to a top-level entry that is not of the
\* data model, if there is one.
LaterEntriesProcessed(p, k) ==
    \A m \in (k + 1)..Len(Steps(ResultAt(p))) :
        \/ Reported(Append(p, m))
        \/ \E x \in (k + 1)..m : NonConforming(Steps(ResultAt(p))[x])

ToolCount(steps) == Cardinality({i \in DOMAIN steps : IsToolStep(steps[i])})

\* The largest number of tool entries in a next_steps list of the chain.
Branching ==
    LET counts == {ToolCount(Steps(arg0))} \cup
                  {ToolCount(Steps(reports[i].info.resp)) : i \in ReportsOf("result")}
    IN  CHOOSE c \in counts : \A d \in counts : d <= c

RECURSIVE Pow(_, _)
Pow(b, e) == IF e = 0 THEN 1 ELSE b * Pow(b, e - 1)

RECURSIVE SumPow(_, _)
SumPow(b, m) == IF m = 0 THEN 0 ELSE Pow(b, m) + SumPow(b, m - 1)

NumInvocations == Cardinality(ReportsOf("call"))

C6_InvocationsBounded ==
    status # "idle" => NumInvocations <= SumPow(Branching, maxDepth)

\* C6: follow_next_steps terminates for every response graph and every
\* max_depth >= 0, a cyclic graph included, and it makes no more tool
\* invocations than the sum of branching^d for d = 1..max_depth.
C6_Terminates == [] C6_InvocationsBounded /\ <>Terminal

\* The depth guard has fired below a tool that is twice on its call path.
C6_Witness ==
    /\ status = "returned"
    /\ \E t \in ReportsOf("truncated"), a, b \in ReportsOf("call") :
          /\ reports[a].tool = "get_customer_profile"
          /\ reports[b].tool = "get_customer_profile"
          /\ StrictPrefix(reports[a].path, reports[b].path)
          /\ IsPrefix(reports[b].path, reports[t].path)

\* C7: the entries of next_steps are processed in their order and depth
\* first: the lines printed follow the depth-first, left-to-right order of
\* the entries they are about, each line is about the entry at its place,
\* and when the chain has returned every entry of every list that was
\* entered has its line.
C7_DepthFirstOrder ==
    /\ \A i, j \in DOMAIN reports :
          i < j => PathLE(reports[i].path, reports[j].path)
    /\ \A i \in DOMAIN reports :
          LET r == reports[i]
          IN  /\ r.kind = "human" => r.info.step = EntryAt(r.path)
              /\ r.kind \in {"call", "result", "error", "unknown"} =>
                    r.tool = EntryAt(r.path).tool
    /\ status = "returned" =>
          /\ maxDepth > 0 => LaterEntriesProcessed(<<>>, 0)
          /\ \A i \in ReportsOf("result") :
                reports[i].depth < maxDepth =>
                    LaterEntriesProcessed(reports[i].path, 0)

\* A list [human, toolA, human2, toolB] has been walked: human, toolA's
\* result, lines of toolA's sub-chain, human2, toolB's result, lines of
\* toolB's sub-chain.
C7_Witness ==
    /\ status = "returned"
    /\ \E a \in ReportsOf("human") :
          /\ Last(reports[a].path) = 1
          /\ LET p == Front(reports[a].path)
             IN  \E b \in ReportsOf("result") :
                   /\ a < b
                   /\ reports[b].path = Append(p, 2)
                   /\ b + 1 \in DOMAIN reports
                   /\ StrictPrefix(Append(p, 2), reports[b + 1].path)
                   /\ \E d \in ReportsOf("human") :
                         /\ b + 1 < d
                         /\ reports[d].path = Append(p, 3)
                         /\ d + 3 \in DOMAIN reports
                         /\ reports[d + 2].kind = "result"
                         /\ reports[d + 2].path = Append(p, 4)
                         /\ StrictPrefix(Append(p, 4), reports[d + 3].path)

\* The params a tool entry carries, {} when it has none.
OwnParams(e) == IF e.params.k = "absent" THEN EmptyMap ELSE e.params.v

\* C8: a tool is invoked with its entry's params, plus customer_id from the
\* parent result when the params have no customer_id and the parent has
\* one; a customer_id in the params is passed as it is, and nothing is
\* injected when neither has one.
C8_Injection ==
    /\ \A i \in ReportsOf("call") :
          LET r == reports[i]
              own == OwnParams(EntryAt(r.path))
              parent == ResultAt(Front(r.path))
              sent == r.info.params.v
          IN  IF "customer_id" \notin DOMAIN own /\ "customer_id" \in DOMAIN parent
              THEN /\ DOMAIN sent = DOMAIN own \cup {"customer_id"}
                   /\ sent.customer_id = parent.customer_id
                   /\ \A key \in DOMAIN own : sent[key] = own[key]
              ELSE sent = own
    /\ (status = "running" /\ Top(stack).pc = "call") =>
          /\ call.tool = reports[Len(reports)].tool
          /\ call.params = reports[Len(reports)].info.params

\* Parent {customer_id: "Neg", next_steps: [{tool: X, params: {}}]}: X is
\* being invoked with exactly {customer_id: "Neg"}.
C8_Witness ==
    /\ status = "running"
    /\ Top(stack).pc = "call"
    /\ Len(stack) = 1
    /\ "customer_id" \in DOMAIN arg0
    /\ EntryAt(reports[Len(reports)].path).params = Dict(EmptyMap)
    /\ call.params.v = [customer_id |-> arg0.customer_id]

\* C9: an entry that names a tool the registry does not have gets an
\* unknown-tool line and nothing else: no invocation, no descent, no
\* exception; the entries after it are processed.
C9_UnknownTool ==
    \A i \in DOMAIN reports :
        LET r == reports[i]
        IN  (/\ r.kind # "truncated"
             /\ IsToolStep(EntryAt(r.path))
             /\ EntryAt(r.path).tool \notin ToolNames) =>
                /\ r.kind = "unknown"
                /\ r.tool = EntryAt(r.path).tool
                /\ \A j \in DOMAIN reports :
                      j # i => ~IsPrefix(r.path, reports[j].path)
                /\ status = "raised" =>
                      \E x \in (Last(r.path) + 1)..r.n :
                          NonConforming(Steps(ResultAt(Front(r.path)))[x])
                /\ Terminal => LaterEntriesProcessed(Front(r.path), Last(r.path))

\* An unknown tool was reported and the entry after it was processed.
C9_Witness ==
    /\ status = "returned"
    /\ \E i \in ReportsOf("unknown"), j \in ReportsOf("result") :
          /\ reports[i].tool = "no_such_tool"
          /\ reports[i].path = <<1>>
          /\ reports[j].path = <<2>>

\* C10: a tool that raises is caught and reported with its name and the
\* error; the branch is not descended; every later entry of its list and
\* of all enclosing lists is processed; and for a result of the data model
\* the top-level call returns normally.
C10_FailureIsolated ==
    /\ \A i \in ReportsOf("error") :
          LET r == reports[i]
          IN  /\ i > 1
              /\ reports[i - 1].kind = "call"
              /\ reports[i - 1].path = r.path
              /\ r.tool = reports[i - 1].tool
              /\ r.tool = EntryAt(r.path).tool
              /\ LET f == InvokeFunction(registry, r.tool, reports[i - 1].info.params.v)
                 IN  /\ ~f.res.ok
                     /\ r.info.detail \in {f.res.err, NotCallableError}
              /\ \A j \in DOMAIN reports : ~StrictPrefix(r.path, reports[j].path)
              /\ Terminal =>
                    \A lvl \in 1..Len(r.path) :
                        LaterEntriesProcessed(SubSeq(r.path, 1, lvl - 1), r.path[lvl])
    /\ Conforms(arg0) => status # "raised"

\* A tool failed two levels down; the entry after it, and the entries after
\* its ancestors, were processed and the chain returned.
C10_Witness ==
    /\ status = "returned"
    /\ \E i \in ReportsOf("error") :
          LET r == reports[i]
          IN  /\ Len(r.path) >= 3
              /\ r.tool = "explain_risk"
              /\ r.info.detail.type = "TypeError"
              /\ Reported(Append(Front(r.path), Last(r.path) + 1))
              /\ Reported(Append(Front(Front(r.path)), Last(Front(r.path)) + 1))

\* The invocations that have been started and have neither a result nor a
\* caught failure yet.
InFlight ==
    {i \in ReportsOf("call") :
        ~\E j \in DOMAIN reports :
            /\ j > i
            /\ reports[j].kind \in {"result", "error"}
            /\ reports[j].path = reports[i].path}

\* The activations of follow_next_steps that wait at an await.
Awaiting(pc) == {k \in DOMAIN stack : stack[k].pc = pc}

\* C11: at most one tool invocation is in flight at any time: it is the
\* innermost activation that awaits it; an invocation has its result or its
\* caught failure before anything else of the chain happens, the descent
\* into a result is the only thing its caller waits for, and no later
\* sibling is touched while a descent is still on the stack.
C11_OneInFlight ==
    /\ Cardinality(InFlight) <= 1
    /\ Awaiting("call") \subseteq {Len(stack)}
    /\ (InFlight # {}) = (Awaiting("call") # {})
    /\ (call # NoCall) = (Awaiting("call") # {})
    /\ \A i \in InFlight :
          /\ i = Len(reports)
          /\ reports[i].tool = call.tool
          /\ reports[i].info.params = call.params
    /\ \A i \in ReportsOf("call") \ InFlight :
          /\ reports[i + 1].kind \in {"result", "error"}
          /\ reports[i + 1].path = reports[i].path
          /\ reports[i + 1].tool = reports[i].tool
    /\ \A k \in 1..(Len(stack) - 1) :
          LET parent == stack[k]
              child == stack[k + 1]
              n == Len(Steps(parent.result))
          IN  /\ parent.pc = "descend"
              /\ child.path = Append(parent.path, LoopEntry(parent.idx, n))
              /\ child.depth = parent.depth + 1
              /\ \E j \in ReportsOf("result") : reports[j].path = child.path
              /\ \A j \in DOMAIN reports :
                    ~(/\ Len(reports[j].path) = Len(child.path)
                      /\ Front(reports[j].path) = parent.path
                      /\ Last(reports[j].path) > Last(child.path))

\* An invocation is in flight two levels down, after an earlier sibling of
\* its list was invoked and followed to its end.
C11_Witness ==
    /\ Len(stack) >= 2
    /\ Top(stack).pc = "call"
    /\ InFlight # {}
    /\ \E i \in ReportsOf("result") :
          /\ Front(reports[i].path) = Top(stack).path
          /\ Last(reports[i].path) < LoopEntry(Top(stack).idx, Len(Steps(Top(stack).result)))

(***************************************************************************)
(* The next_steps of the responder (checked under SpecResponder)           *)
(***************************************************************************)
\* The number of human actions a tool's next_steps opens with.
HumanCount(t, negative) ==
    CASE t = "get_customer_profile" -> IF negative THEN 3 ELSE 2
      [] t = "get_risk_score" -> IF negative THEN 3 ELSE 1
      [] t = "explain_risk" -> IF negative THEN 3 ELSE 2
      [] t = "generate_compliance_report" -> IF negative THEN 3 ELSE 2

\* The tools a tool's next_steps names, in their order.
FollowUps(t) ==
    CASE t = "get_customer_profile" -> <<"get_risk_score", "generate_compliance_report">>
      [] t = "get_risk_score" -> <<"explain_risk", "generate_compliance_report">>
      [] t = "explain_risk" -> <<"generate_compliance_report">>
      [] t = "generate_compliance_report" -> <<>>

\* C12: for every identifier c the next_steps of a tool are its human
\* actions (3 when negative; 2, 1, 2 when positive for profile, score and
\* explanation) followed by its tool entries in their order, each with
\* params.customer_id = c; generate_compliance_report gives human actions
\* only.
C12_NextStepsShape ==
    op \in ToolNames =>
        /\ out.ok
        /\ LET steps == out.val.next_steps
               h == HumanCount(op, HasNeg(cid))
               f == FollowUps(op)
           IN  /\ Len(steps) = h + Len(f)
               /\ \A i \in 1..h : steps[i].kind = "human"
               /\ \A j \in 1..Len(f) :
                     LET e == steps[h + j]
                     IN  /\ e.kind = "tool"
                         /\ e.tool = f[j]
                         /\ e.params.k = "dict"
                         /\ DOMAIN e.params.v = {"customer_id"}
                         /\ e.params.v.customer_id = cid
               /\ op = "generate_compliance_report" =>
                     \A i \in DOMAIN steps : steps[i].kind = "human"

\* The score of a positive identifier: one human action, then explain_risk.
C12_Witness ==
    /\ op = "get_risk_score"
    /\ HasPos(cid) /\ ~HasNeg(cid)
    /\ out.ok
    /\ Len(out.val.next_steps) = 3
    /\ out.val.next_steps[2].tool = "explain_risk"
    /\ out.val.next_steps[2].params.v.customer_id = cid

(***************************************************************************)
(* Further claims about one chain (checked under Spec)                     *)
(***************************************************************************)
\* C13: parameter injection does not mutate the caller's data: when
\* follow_next_steps(result) has returned, result, and with it every params
\* mapping of result.next_steps, is what it was when the call was made.
C13_ParamsUnchanged == status = "returned" => arg = arg0

\* C14: the depth guard bounds every chain.  An activation entered at a
\* depth >= max_depth prints the truncation line, whether or not its result
\* has next_steps, and nothing happens below it; every invocation is made
\* from a depth < max_depth; no path nests more than max_depth invocations;
\* with max_depth = 0 no tool is invoked.
C14_DepthGuardBounds ==
    /\ \A i \in ReportsOf("call") :
          /\ reports[i].depth - 1 < maxDepth
          /\ Len(reports[i].path) <= maxDepth
    /\ Len(stack) <= maxDepth + 1
    /\ \A k \in DOMAIN stack : stack[k].depth = k - 1
    /\ \A i \in ReportsOf("result") :
          reports[i].depth >= maxDepth =>
              /\ IF i = Len(reports)
                 THEN /\ status = "running"
                      /\ Top(stack).pc = "enter"
                      /\ Top(stack).path = reports[i].path
                 ELSE /\ reports[i + 1].kind = "truncated"
                      /\ reports[i + 1].path = reports[i].path
              /\ \A j \in DOMAIN reports :
                    ~StrictPrefix(reports[i].path, reports[j].path)
    /\ \A i \in ReportsOf("truncated") : reports[i].depth >= maxDepth
    /\ (status # "idle" /\ maxDepth = 0) =>
          /\ NumInvocations = 0
          /\ firstOut = {}
          /\ Terminal =>
                /\ status = "returned"
                /\ Len(reports) = 1
                /\ reports[1].kind = "truncated"
                /\ reports[1].path = <<>>

\* With max_depth = 0 a result without next_steps was passed, and the
\* truncation was reported.
C14_Witness ==
    /\ status = "returned"
    /\ maxDepth = 0
    /\ "next_steps" \notin DOMAIN arg0
    /\ Len(reports) = 1
    /\ reports[1].kind = "truncated"

(***************************************************************************)
(* The chain of run_demo (checked under SpecSession)                       *)
(***************************************************************************)
IsCall(r) == r.kind = "call"

\* The tools invoked so far, in the order of their invocation.
Invoked ==
    LET calls == SelectSeq(reports, IsCall)
    IN  [i \in DOMAIN calls |-> calls[i].tool]

ProfileChain ==
    <<"get_risk_score", "explain_risk", "generate_compliance_report",
      "generate_compliance_report", "generate_compliance_report">>

\* C15: following the profile of a customer c with the default max_depth
\* invokes exactly get_risk_score, explain_risk and three times
\* generate_compliance_report, in this order, each with customer_id = c;
\* nothing is truncated, unknown or failing, and the call returns.
C15_ProfileChain ==
    (status # "idle" /\ arg0 \in ProfileResults) =>
        /\ IsPrefix(Invoked, ProfileChain)
        /\ (status = "returned") = (stack = <<>>)
        /\ status = "returned" => Invoked = ProfileChain
        /\ status # "raised"
        /\ \A i \in DOMAIN reports :
              LET r == reports[i]
              IN  /\ r.kind \in {"human", "call", "result"}
                  /\ r.kind = "call" =>
                        r.info.params = Dict([customer_id |-> arg0.customer_id])
                  /\ r.kind = "result" =>
                        /\ r.info.resp.customer_id = arg0.customer_id
                        /\ (r.tool = "generate_compliance_report") =
                              (\A k \in DOMAIN r.info.resp.next_steps :
                                  r.info.resp.next_steps[k].kind = "human")

\* The profile of a positive customer was followed to its end.
C15_Witness ==
    /\ status = "returned"
    /\ arg0 \in ProfileResults
    /\ arg0.customer_id = PosId
    /\ Invoked = ProfileChain
    /\ reports[Len(reports)].kind = "human"

(***************************************************************************)
(* _call_tool within a chain (checked under Spec)                          *)
(***************************************************************************)
\* C16: one call of _call_tool runs the tool's function at most once,
\* whatever the tool object is and also when the function fails: every
\* entry that was followed has caused at most one execution of its tool.
C16_InvokedOnce ==
    \A i \in ReportsOf("result") \cup ReportsOf("error") :
        reports[i].info.runs <= 1

====
